---- MODULE Spec2Model ----
(***************************************************************************)
(* Model of ts_argentum.py: planar_order_to_newick (the clustering loop),  *)
(* planar_to_nexus and newicks_to_nexus (the two run mergers).             *)
(*                                                                         *)
(* Text is a sequence of one-character strings, so that split, join,       *)
(* number parsing and number formatting are computed, not assumed.         *)
(* A float is held in tenths (1.0 is 10, 1.5 is 15): every height literal  *)
(* of the model has at most one decimal, so equality of tenths is the      *)
(* exact float equality numpy computes on the parsed values.               *)
(***************************************************************************)
EXTENDS Integers, Sequences, FiniteSets, TLC

VARIABLES
    \* planar_order_to_newick
    order_string,       \* argument
    height_string,      \* argument
    branch_lengths,     \* argument
    orders,             \* local list of tokens
    heights,            \* local array of floats (tenths)
    cpc,                \* position in planar_order_to_newick
    npass,              \* passes of the while loop made so far
    result,             \* returned text
    \* planar_to_nexus / newicks_to_nexus
    fn,                 \* which of the two conversions runs
    lines,              \* the input file, in file order, newline removed
    cursor,             \* number of lines the file iterator has produced
    variant_positions,  \* argument (tenths)
    seq_length,         \* argument
    num_tips,           \* argument (newicks_to_nexus)
    buffered,           \* buffered_planar_order / buffered_tree
    height,             \* planar_to_nexus: the height line read last
    site,               \* local counter
    bufSite,            \* history: value of site when buffered was assigned
    ncalls,             \* history: calls of planar_order_to_newick made so far
    out,                \* what was printed to outfilehandle, in order
    pc,                 \* position in the conversion
    err                 \* the exception that ended it, "" when none

cvars == <<order_string, height_string, branch_lengths, orders, heights, cpc, npass, result>>
mvars == <<fn, lines, cursor, variant_positions, seq_length, num_tips, buffered,
           height, site, bufSite, ncalls, out, pc, err>>
vars == <<cvars, mvars>>

-----------------------------------------------------------------------------
(* Bounds *)

MaxTips == 4        \* tokens of an order given to planar_order_to_newick
MaxHeight == 3      \* height literals 1..MaxHeight
MaxEntries == 3     \* entries (records or other lines) of an input file
MaxPositions == 3   \* len(variant_positions) ranges over 0..MaxPositions
MaxNumTips == 11    \* num_tips ranges over 0..MaxNumTips

-----------------------------------------------------------------------------
(* Text helpers: Python str / list operations *)

DigitChars == <<"0", "1", "2", "3", "4", "5", "6", "7", "8", "9">>

\* str.isdigit() on one character
IsDigit(c) == \E i \in 1..10 : DigitChars[i] = c

DigitVal(c) == (CHOOSE i \in 1..10 : DigitChars[i] = c) - 1

MinOf(a, b) == IF a < b THEN a ELSE b

\* s[a:b] of Python for 0 <= a (the stop is clamped to len(s))
PySlice(s, a, b) == SubSeq(s, a + 1, MinOf(b, Len(s)))

\* del s[a:b] of Python for 0 <= a <= b
PyDel(s, a, b) == SubSeq(s, 1, a) \o SubSeq(s, MinOf(b, Len(s)) + 1, Len(s))

\* mutant: only the first character is compared, s.startswith(p[0])
StartsWithFirstChar(s, p) == Len(s) >= 1 /\ Len(p) >= 1 /\ s[1] = p[1]

\* s.startswith(p)
StartsWith(s, p) == Len(s) >= Len(p) /\ SubSeq(s, 1, Len(p)) = p

\* s.endswith(p)
EndsWith(s, p) == Len(s) >= Len(p) /\ SubSeq(s, Len(s) - Len(p) + 1, Len(s)) = p

\* sep.join(parts), sep one character
RECURSIVE Join(_, _)
Join(parts, sep) ==
    IF Len(parts) = 0 THEN <<>>
    ELSE IF Len(parts) = 1 THEN parts[1]
    ELSE parts[1] \o <<sep>> \o Join(Tail(parts), sep)

\* s.split(sep), sep one character: "" gives [""]
RECURSIVE Split(_, _)
Split(s, sep) ==
    IF \E i \in 1..Len(s) : s[i] = sep
    THEN LET i == CHOOSE i \in 1..Len(s) : s[i] = sep /\ \A j \in 1..(i-1) : s[j] # sep
         IN <<SubSeq(s, 1, i - 1)>> \o Split(SubSeq(s, i + 1, Len(s)), sep)
    ELSE <<s>>

\* decimal digits of a text to a natural number
RECURSIVE ParseNat(_)
ParseNat(s) ==
    IF Len(s) = 0 THEN 0
    ELSE 10 * ParseNat(SubSeq(s, 1, Len(s) - 1)) + DigitVal(s[Len(s)])

\* "{}".format(n) for an integer n >= 0
RECURSIVE IntToStr(_)
IntToStr(n) ==
    IF n < 10 THEN <<DigitChars[n + 1]>>
    ELSE IntToStr(n \div 10) \o <<DigitChars[(n % 10) + 1]>>

\* one field of np.fromstring: "d", "d.d" -> the float, in tenths
ParseFloat(f) ==
    LET parts == Split(f, ".")
    IN 10 * ParseNat(parts[1])
       + (IF Len(parts) > 1 /\ Len(parts[2]) > 0 THEN DigitVal(parts[2][1]) ELSE 0)

\* np.fromstring(s, sep=","): the empty text gives the empty array
FromString(s) ==
    IF Len(s) = 0 THEN <<>>
    ELSE LET fields == Split(s, ",")
         IN [i \in 1..Len(fields) |-> ParseFloat(fields[i])]

\* "{}".format(x) for a numpy float x (tenths): always with a decimal point
FormatFloat(x) == IntToStr(x \div 10) \o <<".">> \o <<DigitChars[(x % 10) + 1]>>

\* ascending sequence of the elements of a finite set of integers
RECURSIVE SortedSeq(_)
SortedSeq(S) ==
    IF S = {} THEN <<>>
    ELSE LET m == CHOOSE x \in S : \A y \in S : x <= y
         IN <<m>> \o SortedSeq(S \ {m})

-----------------------------------------------------------------------------
(* planar_order_to_newick *)

\* mutant: np.max(heights), the largest height first
TargetHeightMax(hs) == CHOOSE x \in {hs[i] : i \in 1..Len(hs)} : \A i \in 1..Len(hs) : x >= hs[i]

\* np.min(heights)
TargetHeight(hs) == CHOOSE x \in {hs[i] : i \in 1..Len(hs)} : \A i \in 1..Len(hs) : x <= hs[i]

\* heights == target_height
RunsOfMinHeight(hs, target) == [i \in 1..Len(hs) |-> hs[i] = target]

\* np.diff(np.hstack(([0], runs_of_min_height, [0])))
Diffs(runs) ==
    LET bounded == <<0>> \o [i \in 1..Len(runs) |-> IF runs[i] THEN 1 ELSE 0] \o <<0>>
    IN [i \in 1..(Len(bounded) - 1) |-> bounded[i + 1] - bounded[i]]

\* np.where(diffs > 0)[0], 0-based indices
RunStarts(diffs) == SortedSeq({i - 1 : i \in {j \in 1..Len(diffs) : diffs[j] > 0}})

\* np.where(diffs < 0)[0], 0-based indices
RunEnds(diffs) == SortedSeq({i - 1 : i \in {j \in 1..Len(diffs) : diffs[j] < 0}})

\* mutant: the suffix is built whatever branch_lengths says
NwkHeightAlways(target, bl) == <<":">> \o FormatFloat(target)

\* nwk_height
NwkHeight(target, bl) == IF bl THEN <<":">> \o FormatFloat(target) ELSE <<>>

\* mutant: the run is joined last token first, reversed(orders[start:(end+1)])
MergedTokenReversed(ords, start, end, nwk_height) ==
    LET slice == PySlice(ords, start, end + 1)
    IN <<"(">> \o Join([i \in 1..Len(slice) |-> slice[Len(slice) + 1 - i] \o nwk_height], ",") \o <<")">>

\* mutant: only the last two tokens of the run are joined, orders[end-1:(end+1)]
MergedTokenLastPair(ords, start, end, nwk_height) ==
    LET slice == PySlice(ords, end - 1, end + 1)
    IN <<"(">> \o Join([i \in 1..Len(slice) |-> slice[i] \o nwk_height], ",") \o <<")">>

\* mutant: the run is joined without the enclosing brackets, "{}".format(...)
MergedTokenNoBrackets(ords, start, end, nwk_height) ==
    LET slice == PySlice(ords, start, end + 1)
    IN Join([i \in 1..Len(slice) |-> slice[i] \o nwk_height], ",")

\* "({})".format(",".join([o+nwk_height for o in orders[start:(end+1)]]))
MergedToken(ords, start, end, nwk_height) ==
    LET slice == PySlice(ords, start, end + 1)
    IN <<"(">> \o Join([i \in 1..Len(slice) |-> slice[i] \o nwk_height], ",") \o <<")">>

\* mutant: del orders[start:end+1], the merged token goes too
DeleteMergedInclusive(ords, start, end) == PyDel(ords, start, end + 1)

\* del orders[start:end]
DeleteMerged(ords, start, end) == PyDel(ords, start, end)

\* mutant: start and end are used as found, without "-= removed"
RECURSIVE MergeRunsNoShift(_, _, _, _, _, _)
MergeRunsNoShift(ords, starts, ends, k, removed, nwk_height) ==
    IF k > Len(starts) \/ k > Len(ends) THEN [raised |-> FALSE, orders |-> ords]
    ELSE LET start == starts[k]
             end == ends[k]
         IN IF end >= Len(ords) THEN [raised |-> TRUE, orders |-> ords]
            ELSE MergeRunsNoShift(
                    DeleteMerged([ords EXCEPT ![end + 1] = MergedToken(ords, start, end, nwk_height)],
                                 start, end),
                    starts, ends, k + 1, removed + (end - start), nwk_height)

\* the for loop over zip(starts, ends); raised: orders[end] = ... was out of range
RECURSIVE MergeRuns(_, _, _, _, _, _)
MergeRuns(ords, starts, ends, k, removed, nwk_height) ==
    IF k > Len(starts) \/ k > Len(ends) THEN [raised |-> FALSE, orders |-> ords]
    ELSE LET start == starts[k] - removed
             end == ends[k] - removed
         IN IF end >= Len(ords) THEN [raised |-> TRUE, orders |-> ords]
            ELSE MergeRuns(
                    DeleteMerged([ords EXCEPT ![end + 1] = MergedToken(ords, start, end, nwk_height)],
                                 start, end),
                    starts, ends, k + 1, removed + (end - start), nwk_height)

\* mutant: heights is left as it was
RemainingHeightsKeepAll(hs, runs) == hs

\* heights[~runs_of_min_height]
RemainingHeights(hs, runs) ==
    LET keep == {i \in 1..Len(hs) : ~runs[i]}
        idx == SortedSeq(keep)
    IN [i \in 1..Len(idx) |-> hs[idx[i]]]

\* one pass of the while loop
ClusterPass(ords, hs, bl) ==
    LET target == TargetHeight(hs)
        runs == RunsOfMinHeight(hs, target)
        diffs == Diffs(runs)
        merged == MergeRuns(ords, RunStarts(diffs), RunEnds(diffs), 1, 0, NwkHeight(target, bl))
    IN [raised |-> merged.raised, orders |-> merged.orders, heights |-> RemainingHeights(hs, runs)]

\* the while loop, to its end
RECURSIVE ClusterLoop(_, _, _)
ClusterLoop(ords, hs, bl) ==
    IF Len(hs) = 0 THEN [raised |-> FALSE, orders |-> ords]
    ELSE LET p == ClusterPass(ords, hs, bl)
         IN IF p.raised THEN [raised |-> TRUE, orders |-> p.orders]
            ELSE ClusterLoop(p.orders, p.heights, bl)

\* planar_order_to_newick(order_string, height_string, branch_lengths)
PlanarOrderToNewick(os, hs, bl) ==
    LET r == ClusterLoop(Split(os, ","), FromString(hs), bl)
    IN [raised |-> r.raised, text |-> IF r.raised THEN <<>> ELSE r.orders[1] \o <<";">>]

-----------------------------------------------------------------------------
(* Inputs of planar_order_to_newick *)

TipLabels == <<"A", "B", "C", "D", "E", "F">>

\* the height literals: "1" .. "MaxHeight", and "1.0"
HeightLiterals == {<<DigitChars[h + 1]>> : h \in 1..MaxHeight} \cup {<<"1", ".", "0">>}

SeqsUpTo(S, n) == UNION {[1..m -> S] : m \in 0..n}

OrderStrings == {Join([i \in 1..n |-> <<TipLabels[i]>>], ",") : n \in 1..MaxTips}

HeightStrings == {Join(fs, ",") : fs \in SeqsUpTo(HeightLiterals, MaxTips - 1)}

\* the merger's variables while planar_order_to_newick alone is run
MergerIdle ==
    /\ fn = "none" /\ lines = <<>> /\ cursor = 0 /\ variant_positions = <<>>
    /\ seq_length = 0 /\ num_tips = 0 /\ buffered = <<>> /\ height = <<>>
    /\ site = 0 /\ bufSite = 0 /\ ncalls = 0 /\ out = <<>> /\ pc = "idle" /\ err = ""

InitCluster ==
    /\ order_string \in OrderStrings
    /\ height_string \in HeightStrings
    /\ branch_lengths \in BOOLEAN
    /\ orders = <<>>
    /\ heights = <<>>
    /\ cpc = "start"
    /\ npass = 0
    /\ result = <<>>
    /\ MergerIdle

\* lines 42-43
ClusterParse ==
    /\ cpc = "start"
    /\ orders' = Split(order_string, ",")
    /\ heights' = FromString(height_string)
    /\ cpc' = "loop"
    /\ UNCHANGED <<order_string, height_string, branch_lengths, npass, result, mvars>>

\* lines 44-63: one pass; an out-of-range orders[end] raises IndexError
ClusterStep ==
    /\ cpc = "loop"
    /\ Len(heights) > 0
    /\ LET p == ClusterPass(orders, heights, branch_lengths)
       IN IF p.raised
          THEN /\ cpc' = "IndexError"
               /\ UNCHANGED <<orders, heights, npass>>
          ELSE /\ orders' = p.orders
               /\ heights' = p.heights
               /\ npass' = npass + 1
               /\ cpc' = "loop"
    /\ UNCHANGED <<order_string, height_string, branch_lengths, result, mvars>>

\* line 64
ClusterReturn ==
    /\ cpc = "loop"
    /\ Len(heights) = 0
    /\ result' = orders[1] \o <<";">>
    /\ cpc' = "done"
    /\ UNCHANGED <<order_string, height_string, branch_lengths, orders, heights, npass, mvars>>

NextCluster == ClusterParse \/ ClusterStep \/ ClusterReturn

SpecCluster == InitCluster /\ [][NextCluster]_vars

\* the parse is possible exactly at the entry (lines 42-43); it changes cpc
ClusterParseEnabled == cpc = "start"

\* a pass is possible exactly while heights is non-empty (line 44); either
\* branch of ClusterStep changes cpc or npass
ClusterStepEnabled == cpc = "loop" /\ Len(heights) > 0

\* the call runs on: the parse, a pass or the return is taken whenever it is
\* possible. This is weak fairness of each of the three; for the parse and
\* the pass it is written out, []<>~ENABLED \/ []<>step, with the enabling
\* condition of the action spelled out.
SpecClusterFair ==
    /\ SpecCluster
    /\ ([]<>~ClusterParseEnabled \/ []<><<ClusterParse>>_vars)
    /\ ([]<>~ClusterStepEnabled \/ []<><<ClusterStep>>_vars)
    /\ WF_vars(ClusterReturn)

-----------------------------------------------------------------------------
(* Output sink: one item per printed line *)

Item(kind, pos, text, first, last) ==
    [kind |-> kind, pos |-> pos, text |-> text, first |-> first, last |-> last]

Line(kind) == Item(kind, 0, <<>>, 0, 0)

\* print("#NEXUS\nBEGIN TREES;", file = outfilehandle)
NexusHeader == <<Line("#NEXUS"), Line("BEGIN TREES;")>>

\* mutant: the sites are counted from the end, variant_positions[-1 - site]
PositionFromEnd(positions, s) == positions[Len(positions) - s]

\* mutant: the position of the site before, variant_positions[site - 1]
PositionOfPreviousSite(positions, s) == positions[s]

\* variant_positions[site], site counted from 0
PositionOfSite(positions, s) == positions[s + 1]

\* mutant: the semicolon is always appended, end = ";\n"
TreeStatementAlwaysSemicolon(position, tree, first, last) ==
    Item("TREE", position, tree \o <<";">>, first, last)

\* print("TREE", position, "=", tree, sep=" ", end = "\n" if tree.endswith(';') else ";\n")
\* first, last: history, the sites the buffered record stood for
TreeStatement(position, tree, first, last) ==
    Item("TREE", position, tree \o (IF EndsWith(tree, <<";">>) THEN <<>> ELSE <<";">>), first, last)

\* mutant: "{} {}".format(i,i+1), the two identifiers swapped
RECURSIVE TranslatePairsSwapped(_, _)
TranslatePairsSwapped(i, n) ==
    IF i >= n THEN <<>>
    ELSE IntToStr(i) \o <<" ">> \o IntToStr(i + 1)
         \o (IF i + 1 < n THEN <<",", "\n">> \o TranslatePairsSwapped(i + 1, n) ELSE <<>>)

\* ",\n".join(["{} {}".format(i+1,i) for i in range(num_tips)])
RECURSIVE TranslatePairs(_, _)
TranslatePairs(i, n) ==
    IF i >= n THEN <<>>
    ELSE IntToStr(i + 1) \o <<" ">> \o IntToStr(i)
         \o (IF i + 1 < n THEN <<",", "\n">> \o TranslatePairs(i + 1, n) ELSE <<>>)

\* print("TRANSLATE\n{};".format(...), file = outfilehandle)
TranslateBlock(n) == Item("TRANSLATE", 0, TranslatePairs(0, n) \o <<";">>, 0, 0)

-----------------------------------------------------------------------------
(* Inputs of the two conversions *)

\* the order line "0", "0,1", "0,1,2", ...
OrderLine(n) == Join([i \in 1..n |-> <<DigitChars[i]>>], ",")

\* entries of a planar file: a comment line, or an order line and its height line
PlanarEntries ==
    { <<<<"#">>>>,
      <<OrderLine(1), <<>>>>,
      <<OrderLine(2), <<"1">>>>,
      <<OrderLine(2), <<"1", ".", "0">>>>,
      <<OrderLine(3), <<"1", ",", "2">>>> }

\* entries of a newicks file: a comment line, an empty line, a line that starts
\* like the sentinel without being it, and tree lines (with and without the
\* closing semicolon, and with an empty tree)
Sentinel == <<"[", "0", "]">>

NewicksEntries ==
    { <<<<"#">>>>,
      <<<<>>>>,
      <<<<"[", "1", "]", "1", ";">>>>,
      <<Sentinel \o <<"(", "1", ",", "2", ")", ";">>>>,
      <<Sentinel \o <<"(", "2", ",", "1", ")">>>>,
      <<Sentinel>> }

RECURSIVE Flatten(_)
Flatten(ss) == IF Len(ss) = 0 THEN <<>> ELSE Head(ss) \o Flatten(Tail(ss))

\* a planar file may also end in an order line that has no height line
PlanarFiles ==
    {Flatten(es) \o tail : es \in SeqsUpTo(PlanarEntries, MaxEntries),
                           tail \in {<<>>, <<OrderLine(2)>>}}

NewicksFiles == {Flatten(es) : es \in SeqsUpTo(NewicksEntries, MaxEntries)}

\* site i (1-based) lies at 1.5, 2.5, ... (tenths)
PositionAt(i) == 10 * i + 5

\* planar_order_to_newick's variables while a conversion is run
ClusterIdle ==
    /\ order_string = <<>> /\ height_string = <<>> /\ branch_lengths = TRUE
    /\ orders = <<>> /\ heights = <<>> /\ cpc = "idle" /\ npass = 0 /\ result = <<>>

Init ==
    /\ ClusterIdle
    /\ fn \in {"planar_to_nexus", "newicks_to_nexus"}
    /\ lines \in (IF fn = "planar_to_nexus" THEN PlanarFiles ELSE NewicksFiles)
    /\ \E n \in 0..MaxPositions : variant_positions = [i \in 1..n |-> PositionAt(i)]
    /\ seq_length = PositionAt(MaxPositions + 1) + 5
    /\ num_tips \in (IF fn = "planar_to_nexus" THEN {0} ELSE 0..MaxNumTips)
    /\ cursor = 0
    /\ buffered = <<>>
    /\ height = <<>>
    /\ site = 0
    /\ bufSite = 0
    /\ ncalls = 0
    /\ out = <<>>
    /\ pc = "start"
    /\ err = ""

-----------------------------------------------------------------------------
(* planar_to_nexus *)

\* line[0] of a line the text iterator yields: the newline of an empty line
FirstCharWithNewline(l) == IF Len(l) = 0 THEN "\n" ELSE l[1]

\* lines 75-78
PlanarStart ==
    /\ fn = "planar_to_nexus" /\ pc = "start"
    /\ out' = NexusHeader
    /\ buffered' = <<<<>>, <<>>>>
    /\ height' = <<>>
    /\ site' = 0
    /\ bufSite' = 0
    /\ pc' = "loop"
    /\ UNCHANGED <<fn, lines, cursor, variant_positions, seq_length, num_tips, ncalls, err, cvars>>

\* lines 79-81: a line that is no planar order line
PlanarSkip ==
    /\ fn = "planar_to_nexus" /\ pc = "loop"
    /\ cursor < Len(lines)
    /\ ~IsDigit(FirstCharWithNewline(lines[cursor + 1]))
    /\ cursor' = cursor + 1
    /\ UNCHANGED <<fn, lines, variant_positions, seq_length, num_tips, buffered, height,
                   site, bufSite, ncalls, out, pc, err, cvars>>

\* lines 79-95: a planar order line and the height line after it
PlanarSite ==
    /\ fn = "planar_to_nexus" /\ pc = "loop"
    /\ cursor < Len(lines)
    /\ IsDigit(FirstCharWithNewline(lines[cursor + 1]))
    /\ IF cursor + 2 > Len(lines)
       THEN \* next(argentum_planar_fh) at the end of the file
            /\ pc' = "raised" /\ err' = "StopIteration"
            /\ cursor' = cursor + 1
            /\ UNCHANGED <<buffered, height, site, bufSite, ncalls, out>>
       ELSE LET order == lines[cursor + 1]
                h == lines[cursor + 2]
                flush == buffered # <<order, h>> /\ buffered[1] # <<>>
                nwk == PlanarOrderToNewick(buffered[1], buffered[2], TRUE)
            IN /\ cursor' = cursor + 2
               /\ height' = h
               /\ ncalls' = IF flush THEN ncalls + 1 ELSE ncalls
               /\ IF flush /\ (nwk.raised \/ site >= Len(variant_positions))
                  THEN \* planar_order_to_newick or variant_positions[site] out of range
                       /\ pc' = "raised" /\ err' = "IndexError"
                       /\ UNCHANGED <<buffered, site, bufSite, out>>
                  ELSE /\ out' = IF flush
                                 THEN Append(out, TreeStatement(PositionOfSite(variant_positions, site),
                                                                nwk.text, bufSite, site - 1))
                                 ELSE out
                       /\ buffered' = <<order, h>>
                       /\ bufSite' = IF buffered # <<order, h>> THEN site ELSE bufSite
                       /\ site' = site + 1
                       /\ UNCHANGED <<pc, err>>
    /\ UNCHANGED <<fn, lines, variant_positions, seq_length, num_tips, cvars>>

\* mutant: the last tree is printed before the count of sites is compared
PlanarFinishFlushFirst ==
    /\ fn = "planar_to_nexus" /\ pc = "loop"
    /\ cursor = Len(lines)
    /\ LET nwk == PlanarOrderToNewick(buffered[1], buffered[2], TRUE)
           flushed == IF height # <<>>
                      THEN Append(out, TreeStatement(seq_length, nwk.text, bufSite, site - 1))
                      ELSE out
       IN IF height # <<>> /\ nwk.raised
          THEN /\ pc' = "raised" /\ err' = "IndexError"
               /\ out' = out
          ELSE IF site # Len(variant_positions)
          THEN /\ pc' = "raised" /\ err' = "ValueError"
               /\ out' = flushed
          ELSE /\ pc' = "done" /\ err' = err
               /\ out' = flushed \o <<Line("END;")>>
    /\ ncalls' = IF height # <<>> THEN ncalls + 1 ELSE ncalls
    /\ UNCHANGED <<fn, lines, cursor, variant_positions, seq_length, num_tips, buffered,
                   height, site, bufSite, cvars>>

\* lines 96-107: after the last line
PlanarFinish ==
    /\ fn = "planar_to_nexus" /\ pc = "loop"
    /\ cursor = Len(lines)
    /\ LET nwk == PlanarOrderToNewick(buffered[1], buffered[2], TRUE)
       IN IF site # Len(variant_positions)
          THEN /\ pc' = "raised" /\ err' = "ValueError"
               /\ out' = out
          ELSE IF height # <<>> /\ nwk.raised
          THEN /\ pc' = "raised" /\ err' = "IndexError"
               /\ out' = out
          ELSE /\ pc' = "done" /\ err' = err
               /\ out' = (IF height # <<>>
                          THEN Append(out, TreeStatement(seq_length, nwk.text, bufSite, site - 1))
                          ELSE out) \o <<Line("END;")>>
    /\ ncalls' = IF site = Len(variant_positions) /\ height # <<>> THEN ncalls + 1 ELSE ncalls
    /\ UNCHANGED <<fn, lines, cursor, variant_positions, seq_length, num_tips, buffered,
                   height, site, bufSite, cvars>>

-----------------------------------------------------------------------------
(* newicks_to_nexus *)

\* the line FileReadBackwards yields next: the file is read last line first
BackwardLine == lines[Len(lines) - cursor]

\* the first character of a line, "" for the empty line (which has none)
FirstCharOrNone(l) == IF Len(l) = 0 THEN "" ELSE l[1]

\* lines 119-126
NewicksStart ==
    /\ fn = "newicks_to_nexus" /\ pc = "start"
    /\ out' = NexusHeader \o <<TranslateBlock(num_tips)>>
    /\ buffered' = <<>>
    /\ site' = 0
    /\ bufSite' = 0
    /\ pc' = "loop"
    /\ UNCHANGED <<fn, lines, cursor, variant_positions, seq_length, num_tips, height, ncalls,
                   err, cvars>>

\* lines 127-129: a line whose first character is not "[" (line[0] of an
\* empty line raises IndexError)
NewicksSkip ==
    /\ fn = "newicks_to_nexus" /\ pc = "loop"
    /\ cursor < Len(lines)
    /\ FirstCharOrNone(BackwardLine) # Sentinel[1]
    /\ cursor' = cursor + 1
    /\ IF Len(BackwardLine) = 0
       THEN pc' = "raised" /\ err' = "IndexError"
       ELSE UNCHANGED <<pc, err>>
    /\ UNCHANGED <<fn, lines, variant_positions, seq_length, num_tips, buffered, height,
                   site, bufSite, ncalls, out, cvars>>

\* lines 127-142: a line whose first character is "["
NewicksSite ==
    /\ fn = "newicks_to_nexus" /\ pc = "loop"
    /\ cursor < Len(lines)
    /\ FirstCharOrNone(BackwardLine) = Sentinel[1]
    /\ cursor' = cursor + 1
    /\ LET tree == PySlice(BackwardLine, Len(Sentinel), Len(BackwardLine))
           flush == buffered # tree /\ buffered # <<>>
       IN IF ~StartsWith(BackwardLine, Sentinel)
          THEN /\ pc' = "raised" /\ err' = "AssertionError"
               /\ UNCHANGED <<buffered, site, bufSite, out>>
          ELSE IF flush /\ site >= Len(variant_positions)
          THEN /\ pc' = "raised" /\ err' = "IndexError"
               /\ UNCHANGED <<buffered, site, bufSite, out>>
          ELSE /\ out' = IF flush
                         THEN Append(out, TreeStatement(PositionOfSite(variant_positions, site),
                                                        buffered, bufSite, site - 1))
                         ELSE out
               /\ buffered' = tree
               /\ bufSite' = IF buffered # tree THEN site ELSE bufSite
               /\ site' = site + 1
               /\ UNCHANGED <<pc, err>>
    /\ UNCHANGED <<fn, lines, variant_positions, seq_length, num_tips, height, ncalls, cvars>>

\* lines 143-153: after the last line
NewicksFinish ==
    /\ fn = "newicks_to_nexus" /\ pc = "loop"
    /\ cursor = Len(lines)
    /\ IF site # Len(variant_positions)
       THEN /\ pc' = "raised" /\ err' = "ValueError"
            /\ out' = out
       ELSE /\ pc' = "done" /\ err' = err
            /\ out' = (IF buffered # <<>>
                       THEN Append(out, TreeStatement(seq_length, buffered, bufSite, site - 1))
                       ELSE out) \o <<Line("END;")>>
    /\ UNCHANGED <<fn, lines, cursor, variant_positions, seq_length, num_tips, buffered,
                   height, site, bufSite, ncalls, cvars>>

Next ==
    \/ PlanarStart \/ PlanarSkip \/ PlanarSite \/ PlanarFinish
    \/ NewicksStart \/ NewicksSkip \/ NewicksSite \/ NewicksFinish

Spec == Init /\ [][Next]_vars

-----------------------------------------------------------------------------
(* What the claims speak of, read off the input and the output *)

\* the site records of a planar file: each order line with the line after it
RECURSIVE PlanarRecordsFrom(_, _)
PlanarRecordsFrom(ls, i) ==
    IF i > Len(ls) THEN <<>>
    ELSE IF ~IsDigit(FirstCharWithNewline(ls[i])) THEN PlanarRecordsFrom(ls, i + 1)
    ELSE IF i + 1 > Len(ls) THEN <<>>
    ELSE <<<<ls[i], ls[i + 1]>>>> \o PlanarRecordsFrom(ls, i + 2)

\* an order line at the very end of a planar file, without its height line
RECURSIVE PlanarTruncatedFrom(_, _)
PlanarTruncatedFrom(ls, i) ==
    IF i > Len(ls) THEN FALSE
    ELSE IF ~IsDigit(FirstCharWithNewline(ls[i])) THEN PlanarTruncatedFrom(ls, i + 1)
    ELSE IF i + 1 > Len(ls) THEN TRUE
    ELSE PlanarTruncatedFrom(ls, i + 2)

\* the site records of a newicks file, in the order they are read (last line first)
RECURSIVE NewicksRecordsFrom(_, _)
NewicksRecordsFrom(ls, i) ==
    IF i < 1 THEN <<>>
    ELSE IF StartsWith(ls[i], Sentinel)
    THEN <<SubSeq(ls[i], Len(Sentinel) + 1, Len(ls[i]))>> \o NewicksRecordsFrom(ls, i - 1)
    ELSE NewicksRecordsFrom(ls, i - 1)

SiteRecords ==
    IF fn = "planar_to_nexus" THEN PlanarRecordsFrom(lines, 1)
    ELSE NewicksRecordsFrom(lines, Len(lines))

\* every line of the input is a site record or a line to be skipped
WellFormedInput ==
    IF fn = "planar_to_nexus" THEN ~PlanarTruncatedFrom(lines, 1)
    ELSE \A i \in 1..Len(lines) :
            Len(lines[i]) > 0 /\ (lines[i][1] = "[" => StartsWith(lines[i], Sentinel))

\* the first site (counted from 0) of each maximal run of identical records
RunFirstSites(recs) ==
    SortedSeq({i - 1 : i \in {j \in 1..Len(recs) : j = 1 \/ recs[j] # recs[j - 1]}})

IsTree(item) == item.kind = "TREE"

\* the TREE statements written so far
TreeStatements == SelectSeq(out, IsTree)

Finished == pc \in {"done", "raised"}

-----------------------------------------------------------------------------
(* C1 *)

\* C1: planar_to_nexus: the k-th TREE statement written is tagged with the
\* position of the first site of run k+1 when run k is not the last run, and
\* with the total sequence length when run k contains the final site.
C1_ExitPositions ==
    fn = "planar_to_nexus" =>
        LET firsts == RunFirstSites(SiteRecords)
        IN /\ Len(TreeStatements) <= Len(firsts)
           /\ \A k \in 1..Len(TreeStatements) :
                IF k < Len(firsts)
                THEN /\ firsts[k + 1] + 1 \in DOMAIN variant_positions
                     /\ TreeStatements[k].pos = variant_positions[firsts[k + 1] + 1]
                ELSE TreeStatements[k].pos = seq_length

\* a finished planar conversion that wrote two statements, the first for a
\* run of two sites or more
C1_Witness ==
    /\ fn = "planar_to_nexus" /\ pc = "done"
    /\ Len(TreeStatements) >= 2
    /\ TreeStatements[1].last >= 1
    /\ TreeStatements[Len(TreeStatements)].pos = seq_length

-----------------------------------------------------------------------------
(* C2 *)

\* C2: in both conversions the number of TREE statements of a finished
\* conversion equals the number of maximal runs of identical site records.
C2_OneStatementPerRun ==
    pc = "done" => Len(TreeStatements) = Len(RunFirstSites(SiteRecords))

-----------------------------------------------------------------------------
(* C3 *)

\* C3: in both conversions, whenever the number of site records differs from
\* len(variant_positions), the conversion ends with the accounting ValueError
\* and with no other exception.
C3_MismatchRaisesValueError ==
    (Finished /\ WellFormedInput /\ Len(SiteRecords) # Len(variant_positions))
        => (pc = "raised" /\ err = "ValueError")

-----------------------------------------------------------------------------
(* C4 *)

\* C4: in a conversion that ends without an error every consumed site belongs
\* to exactly one emitted run, and the number of sites equals
\* len(variant_positions).
C4_EverySiteInOneRun ==
    pc = "done" =>
        /\ site = Len(variant_positions)
        /\ \A s \in 0..(site - 1) :
              Cardinality({k \in 1..Len(TreeStatements) :
                              TreeStatements[k].first <= s /\ s <= TreeStatements[k].last}) = 1

-----------------------------------------------------------------------------
(* C5 *)

\* C5: planar_to_nexus: when at least one site was consumed and the accounting
\* check passes, the last statement before END; is the TREE statement of the
\* final run, tagged with the total sequence length.
C5_FinalRunFlushed ==
    (fn = "planar_to_nexus" /\ pc = "done" /\ site >= 1) =>
        /\ Len(out) >= 2
        /\ out[Len(out) - 1].kind = "TREE"
        /\ out[Len(out) - 1].pos = seq_length
        /\ out[Len(out) - 1].last = site - 1

-----------------------------------------------------------------------------
(* Reading a Newick text: brackets, commas, clusters *)

Count(s, c, i) == Cardinality({q \in 1..i : s[q] = c})

\* the number of brackets open after character i
Level(s, i) == Count(s, "(", i) - Count(s, ")", i)

\* the positions of the commas, left to right: comma j separates tip j from tip j+1
Commas(s) == SortedSeq({i \in 1..Len(s) : s[i] = ","})

\* the opening bracket of the innermost cluster around position p, 0 when none
Owner(s, p) ==
    LET opens == {q \in 1..(p - 1) : s[q] = "(" /\ Level(s, q) = Level(s, p)}
    IN IF opens = {} THEN 0 ELSE CHOOSE q \in opens : \A r \in opens : r <= q

\* the commas (by number) directly inside the same cluster as comma j
SameCluster(s, j) ==
    LET cs == Commas(s)
    IN {i \in 1..Len(cs) : Owner(s, cs[i]) = Owner(s, cs[j])}

\* the number of children of the cluster opened at q
Children(s, q) == Cardinality({p \in 1..Len(s) : s[p] = "," /\ Owner(s, p) = q}) + 1

Clusters(s) == {q \in 1..Len(s) : s[q] = "("}

Depth(s) ==
    LET levels == {Level(s, i) : i \in 0..Len(s)}
    IN CHOOSE d \in levels : \A e \in levels : e <= d

Text3(a, b, c) == <<a, ",", b, ",", c>>

\* the arguments as parsed
InOrders == Split(order_string, ",")
InHeights == FromString(height_string)

\* len(heights) == len(order) - 1 on entry
WellFormedOrder == Len(InHeights) = Len(InOrders) - 1

\* the maximal runs of equal consecutive values of hs, as <<first, last>>
EqualRuns(hs) ==
    {<<i, j>> \in (1..Len(hs)) \X (1..Len(hs)) :
        /\ i <= j
        /\ \A m \in i..j : hs[m] = hs[i]
        /\ (i = 1 \/ hs[i - 1] # hs[i])
        /\ (j = Len(hs) \/ hs[j + 1] # hs[i])}

\* the positions holding the value of position j that nothing higher separates from j
Tied(hs, j) ==
    {i \in 1..Len(hs) :
        /\ hs[i] = hs[j]
        /\ \A m \in (IF i < j THEN i ELSE j)..(IF i < j THEN j ELSE i) : hs[m] <= hs[j]}

-----------------------------------------------------------------------------
(* C6 *)

\* C6 as stated: order "A,B,C", heights "1,2", no branch lengths gives "(A,(B,C));"
C6_AsStated ==
    (cpc = "done" /\ order_string = Text3("A", "B", "C") /\ height_string = <<"1", ",", "2">>
        /\ ~branch_lengths)
        => result = <<"(", "A", ",", "(", "B", ",", "C", ")", ")", ";">>

\* C6: order "A,B,C", heights "1,2", no branch lengths gives "((A,B),C);":
\* the smaller height, between A and B, is merged first.
C6_SmallestHeightFirst ==
    (cpc = "done" /\ order_string = Text3("A", "B", "C") /\ height_string = <<"1", ",", "2">>
        /\ ~branch_lengths)
        => result = <<"(", "(", "A", ",", "B", ")", ",", "C", ")", ";">>

C6_Witness ==
    /\ cpc = "done" /\ npass = 2
    /\ order_string = Text3("A", "B", "C") /\ height_string = <<"1", ",", "2">>
    /\ ~branch_lengths

-----------------------------------------------------------------------------
(* C7 *)

\* C7 as stated: every maximal run of k equal consecutive heights gives one
\* cluster with exactly k+1 children, whatever surrounds the run.
C7_AsStated ==
    (cpc = "done" /\ WellFormedOrder) =>
        \A r \in EqualRuns(InHeights) :
            /\ \A j \in r[1]..r[2] : SameCluster(result, j) = SameCluster(result, r[1])
            /\ Children(result, Owner(result, Commas(result)[r[1]])) = (r[2] - r[1] + 1) + 1

\* C7: the heights merged into the cluster of position j are exactly those
\* equal to heights[j] that no larger height separates from j, and the cluster
\* has one child more than that; so a maximal run of k equal consecutive
\* values gives one cluster of exactly k+1 children when no other occurrence
\* of its value lies across smaller heights only, and a larger one otherwise.
C7_TiedHeightsOneCluster ==
    (cpc = "done" /\ WellFormedOrder) =>
        /\ Len(Commas(result)) = Len(InHeights)
        /\ \A j \in 1..Len(InHeights) :
            /\ SameCluster(result, j) = Tied(InHeights, j)
            /\ Owner(result, Commas(result)[j]) # 0
            /\ Children(result, Owner(result, Commas(result)[j]))
                  = Cardinality(Tied(InHeights, j)) + 1

\* a run of two equal heights with a larger height beside it: one cluster of three
C7_Witness ==
    /\ cpc = "done" /\ WellFormedOrder /\ ~branch_lengths
    /\ InHeights = <<10, 10, 20>>
    /\ result = <<"(", "(", "A", ",", "B", ",", "C", ")", ",", "D", ")", ";">>

-----------------------------------------------------------------------------
(* C8 *)

StrictlyIncreasing(hs) == \A i \in 1..(Len(hs) - 1) : hs[i] < hs[i + 1]

\* C8: with N tokens and N-1 strictly increasing heights every cluster has
\* exactly two children, there are N-1 clusters, and they nest N-1 deep.
C8_IncreasingHeightsNestBinary ==
    (cpc = "done" /\ WellFormedOrder /\ StrictlyIncreasing(InHeights)) =>
        /\ \A q \in Clusters(result) : Children(result, q) = 2
        /\ Cardinality(Clusters(result)) = Len(InOrders) - 1
        /\ Depth(result) = Len(InOrders) - 1

C8_Witness ==
    /\ cpc = "done" /\ WellFormedOrder /\ StrictlyIncreasing(InHeights)
    /\ Len(InOrders) >= 4 /\ npass = Len(InOrders) - 1

-----------------------------------------------------------------------------
(* C9 *)

\* C9: when len(heights) == len(order) - 1 on entry, it holds at the start of
\* every pass of the while loop and at exit.
C9_LengthsStayPaired ==
    (WellFormedOrder /\ cpc \in {"loop", "done"}) => Len(heights) = Len(orders) - 1

\* between two passes, after a pass that merged
C9_Witness ==
    /\ WellFormedOrder /\ cpc = "loop" /\ npass >= 1 /\ Len(heights) >= 1
    /\ Len(orders) < Len(InOrders)

-----------------------------------------------------------------------------
(* C10 *)

AllDigits(t) == Len(t) > 0 /\ \A i \in 1..Len(t) : IsDigit(t[i])

\* a decimal numeral without leading zeros
Numeral(t) == AllDigits(t) /\ (Len(t) > 1 => t[1] # "0")

\* the entries of a TRANSLATE text: what lies between its commas, the final ";" removed
TranslateEntries(text) ==
    IF Len(text) = 1 THEN <<>> ELSE Split(SubSeq(text, 1, Len(text) - 1), ",")

\* entry k (from 1) reads "k k-1", after a newline when it is not the first
IsTranslateEntry(e, k) ==
    LET body == IF k = 1 THEN e ELSE Tail(e)
        ids == Split(body, " ")
    IN /\ (k > 1 => Len(e) > 0 /\ e[1] = "\n")
       /\ Len(ids) = 2
       /\ Numeral(ids[1]) /\ ParseNat(ids[1]) = k
       /\ Numeral(ids[2]) /\ ParseNat(ids[2]) = k - 1

IsTranslate(item) == item.kind = "TRANSLATE"

\* C10: newicks_to_nexus writes the TRANSLATE block once, right after the
\* header and before any TREE statement; it lists the num_tips pairs "i+1 i",
\* i = 0..num_tips-1, in ascending order, joined by ",\n" and closed by ";".
C10_TranslateTable ==
    (fn = "newicks_to_nexus" /\ pc # "start") =>
        /\ Len(SelectSeq(out, IsTranslate)) = 1
        /\ Len(out) >= 3 /\ out[3].kind = "TRANSLATE"
        /\ \A i \in 1..2 : out[i].kind # "TREE"
        /\ LET text == out[3].text
               es == TranslateEntries(text)
           IN /\ Len(text) >= 1 /\ text[Len(text)] = ";"
              /\ Len(es) = num_tips
              /\ \A k \in 1..Len(es) : IsTranslateEntry(es[k], k)
              /\ (num_tips = 3 =>
                    text = <<"1", " ", "0", ",", "\n", "2", " ", "1", ",", "\n", "3", " ", "2", ";">>)

\* a finished conversion for three tips that wrote a TREE statement
C10_Witness ==
    /\ fn = "newicks_to_nexus" /\ pc = "done" /\ Len(TreeStatements) >= 1
    /\ num_tips = 3

-----------------------------------------------------------------------------
(* C11 *)

\* the text "[0]" at the head of a line, compared character by character
HasSentinel(l) == Len(l) >= 3 /\ l[1] = "[" /\ l[2] = "0" /\ l[3] = "]"

\* newicks_to_nexus is about to read a line
NewicksReading == fn = "newicks_to_nexus" /\ pc = "loop" /\ cursor < Len(lines)

\* C11: in newicks_to_nexus a line that does not begin with "[0]" raises no
\* error, does not increment site, and leaves the buffered tree and the output
\* unchanged. Stated for the lines whose first character is not "[", the empty
\* line among them; the lines that begin with "[" are the subject of C12.
C11_OtherLinesIgnored ==
    [][(NewicksReading /\ ~HasSentinel(BackwardLine)
          /\ (Len(BackwardLine) = 0 \/ BackwardLine[1] # "["))
          => (pc' = "loop" /\ err' = "" /\ site' = site /\ buffered' = buffered /\ out' = out)]_vars

-----------------------------------------------------------------------------
(* C12 *)

\* C12: in newicks_to_nexus a line whose first character is "[" but which does
\* not start with "[0]" ends the conversion at once with the assertion error:
\* the line is not counted as a site, not buffered, and nothing is written for
\* it or after it.
C12_AssertionAborts ==
    /\ [][(NewicksReading /\ Len(BackwardLine) > 0 /\ BackwardLine[1] = "["
              /\ ~HasSentinel(BackwardLine))
            => (pc' = "raised" /\ err' = "AssertionError"
                /\ site' = site /\ buffered' = buffered /\ out' = out)]_vars
    /\ [][pc = "raised" => (pc' = "raised" /\ out' = out /\ site' = site)]_vars

\* the assertion failed after a tree had been buffered and a statement written
C12_Witness ==
    /\ fn = "newicks_to_nexus" /\ pc = "raised" /\ err = "AssertionError"
    /\ site >= 2 /\ Len(TreeStatements) >= 1 /\ buffered # <<>>

-----------------------------------------------------------------------------
(* C13 *)

\* the text ends in one semicolon, not two
OneSemicolon(t) == Len(t) >= 1 /\ t[Len(t)] = ";" /\ (Len(t) >= 2 => t[Len(t) - 1] # ";")

\* the tree of the site record a statement was written for
TreeOfRecord(rec) ==
    IF fn = "planar_to_nexus" THEN PlanarOrderToNewick(rec[1], rec[2], TRUE).text ELSE rec

\* the index in out of the first TREE statement, if any
FirstTreeIndex == IF fn = "newicks_to_nexus" THEN 4 ELSE 3

\* C13: a conversion that completes has written "#NEXUS", "BEGIN TREES;",
\* (newicks_to_nexus only) the TRANSLATE block, then TREE statements only, each
\* the tree of its run closed by exactly one ";" (none added to a tree that
\* ends in ";"), then "END;"; "END;" is written once, last, and only on completion.
C13_NexusEnvelope ==
    /\ pc = "done" =>
        /\ Len(out) >= FirstTreeIndex
        /\ out[1].kind = "#NEXUS" /\ out[2].kind = "BEGIN TREES;"
        /\ (fn = "newicks_to_nexus" => out[3].kind = "TRANSLATE")
        /\ out[Len(out)].kind = "END;"
        /\ \A i \in FirstTreeIndex..(Len(out) - 1) :
              /\ out[i].kind = "TREE"
              /\ OneSemicolon(out[i].text)
              /\ LET t == TreeOfRecord(SiteRecords[out[i].first + 1])
                 IN out[i].text = IF t[Len(t)] = ";" THEN t ELSE t \o <<";">>
    /\ \A i \in 1..Len(out) : out[i].kind = "END;" => (pc = "done" /\ i = Len(out))

\* a finished newicks_to_nexus that wrote a tree that came with its semicolon
\* and one that came without
C13_Witness ==
    /\ fn = "newicks_to_nexus" /\ pc = "done"
    /\ \E i, j \in 1..Len(TreeStatements) :
          /\ SiteRecords[TreeStatements[i].first + 1] = TreeStatements[i].text
          /\ SiteRecords[TreeStatements[j].first + 1] # TreeStatements[j].text

-----------------------------------------------------------------------------
(* C14 *)

\* the number of leading entries of hs equal to m
RECURSIVE LeadingEqual(_, _)
LeadingEqual(hs, m) ==
    IF Len(hs) = 0 \/ hs[1] # m THEN 0 ELSE 1 + LeadingEqual(Tail(hs), m)

\* the tokens after all gaps of height m are closed, read left to right:
\* tokens joined by a maximal group of consecutive gaps of height m become one
\* bracketed token, every other token stays (hs[i] is the gap after toks[i])
RECURSIVE Regroup(_, _, _, _)
Regroup(toks, hs, m, suffix) ==
    IF Len(toks) = 0 THEN <<>>
    ELSE LET k == LeadingEqual(hs, m)
             group == SubSeq(toks, 1, k + 1)
             rest == Regroup(SubSeq(toks, k + 2, Len(toks)), SubSeq(hs, k + 2, Len(hs)), m, suffix)
         IN IF k = 0 THEN <<toks[1]>> \o rest
            ELSE << <<"(">> \o Join([i \in 1..Len(group) |-> group[i] \o suffix], ",") \o <<")">> >>
                 \o rest

SmallestOf(hs) == CHOOSE x \in {hs[i] : i \in 1..Len(hs)} : \A i \in 1..Len(hs) : x <= hs[i]

SuffixFor(h) == IF branch_lengths THEN <<":">> \o FormatFloat(h) ELSE <<>>

\* C14: a pass merges every occurrence of the minimum height, adjacent or not:
\* each maximal group of consecutive occurrences becomes its own cluster of
\* the tokens around it, every other token is left as it was, and all
\* occurrences leave the height sequence (so order A,B,C,D with heights 1,2,1
\* becomes (A,B),(C,D) in one pass).
C14_TiesMergedInOnePass ==
    [][(cpc = "loop" /\ Len(heights) > 0 /\ Len(heights) = Len(orders) - 1) =>
          /\ cpc' = "loop"
          /\ orders' = Regroup(orders, heights, SmallestOf(heights), SuffixFor(SmallestOf(heights)))
          /\ \A i \in 1..Len(heights') : heights'[i] # SmallestOf(heights)
          /\ Len(heights') = Len(heights) - Cardinality({i \in 1..Len(heights) :
                                                            heights[i] = SmallestOf(heights)})]_vars

\* order A,B,C,D with heights 1,2,1 after its first pass
C14_Witness ==
    /\ cpc = "loop" /\ npass = 1 /\ ~branch_lengths
    /\ InOrders = << <<"A">>, <<"B">>, <<"C">>, <<"D">> >>
    /\ InHeights = <<10, 20, 10>>
    /\ orders = << <<"(", "A", ",", "B", ")">>, <<"(", "C", ",", "D", ")">> >>
    /\ heights = <<20>>

-----------------------------------------------------------------------------
(* C15 *)

\* C15: planar_to_nexus has called planar_order_to_newick exactly once for
\* each TREE statement written, and never more often than there are runs.
C15_OneCallPerStatement ==
    fn = "planar_to_nexus" =>
        /\ ncalls = Len(TreeStatements)
        /\ ncalls <= Len(RunFirstSites(SiteRecords))

-----------------------------------------------------------------------------
(* C16 *)

\* what C16 says of the output once the accounting error is raised: no END;,
\* no statement for the final buffered run, and no statement written at or
\* past site len(variant_positions)
AbortedOutput ==
    err = "ValueError" =>
        /\ pc = "raised"
        /\ \A i \in 1..Len(out) : out[i].kind # "END;"
        /\ \A k \in 1..Len(TreeStatements) :
              /\ TreeStatements[k].pos # seq_length
              /\ TreeStatements[k].last + 1 < Len(variant_positions)

\* C16 as stated: the output is left as above, and the error is raised as soon
\* as the mismatch exists (as soon as more sites are consumed than there are
\* positions).
C16_AsStated ==
    /\ AbortedOutput
    /\ site > Len(variant_positions) => pc = "raised"

\* C16: when the accounting error is raised the statements already written are
\* left as they are and neither the final run's statement nor END; is written;
\* the error is raised only after the whole input has been read, and no TREE
\* statement is written between the point of mismatch and the error.
C16_AbortAtEndOfInput ==
    /\ [](AbortedOutput /\ (err = "ValueError" => cursor = Len(lines)))
    /\ [][(err' = "ValueError" /\ err = "") => out' = out]_vars
    /\ [][site > Len(variant_positions) => TreeStatements' = TreeStatements]_vars

\* the accounting error after statements were written and after surplus
\* records were read
C16_Witness ==
    /\ err = "ValueError" /\ pc = "raised"
    /\ Len(TreeStatements) >= 1
    /\ site > Len(variant_positions)

-----------------------------------------------------------------------------
(* C17 *)

\* the closing bracket of the cluster opened at q
MatchingClose(s, q) ==
    CHOOSE r \in (q + 1)..Len(s) :
        /\ s[r] = ")" /\ Level(s, r) = Level(s, q) - 1
        /\ \A x \in (q + 1)..(r - 1) : ~(s[x] = ")" /\ Level(s, x) = Level(s, q) - 1)

\* the text s holds t right before position p
EndsBefore(s, p, t) == p - Len(t) >= 1 /\ SubSeq(s, p - Len(t), p - 1) = t

\* the height of the merge that formed the cluster opened at q
ClusterHeight(s, q) ==
    InHeights[CHOOSE j \in 1..Len(Commas(s)) : Owner(s, Commas(s)[j]) = q]

IsSuffixChar(c) == c = ":" \/ c = "." \/ IsDigit(c)

NotSuffixChar(c) == ~IsSuffixChar(c)

\* C17: with branch lengths every child of a cluster is followed by ":" and
\* the height of the merge that formed the cluster, and nothing else carries a
\* suffix (the root does not); without them the text holds no ":" at all; the
\* two texts have the same brackets, commas and tips.
C17_BranchLengthSuffix ==
    (cpc = "done" /\ WellFormedOrder) =>
        IF branch_lengths
        THEN /\ \A j \in 1..Len(Commas(result)) :
                  EndsBefore(result, Commas(result)[j], <<":">> \o FormatFloat(InHeights[j]))
             /\ \A q \in Clusters(result) :
                  EndsBefore(result, MatchingClose(result, q),
                             <<":">> \o FormatFloat(ClusterHeight(result, q)))
             /\ Count(result, ":", Len(result))
                  = Len(Commas(result)) + Cardinality(Clusters(result))
             /\ ~IsSuffixChar(result[Len(result) - 1])
             /\ SelectSeq(result, NotSuffixChar)
                  = PlanarOrderToNewick(order_string, height_string, FALSE).text
        ELSE /\ Count(result, ":", Len(result)) = 0
             /\ result = SelectSeq(PlanarOrderToNewick(order_string, height_string, TRUE).text,
                                   NotSuffixChar)

\* four tips merged at two different heights, with branch lengths
C17_Witness ==
    /\ cpc = "done" /\ WellFormedOrder /\ branch_lengths
    /\ Len(InOrders) = 4 /\ InHeights = <<20, 10, 20>>
    /\ Count(result, ":", Len(result)) = 5

-----------------------------------------------------------------------------
(* C18 *)

\* the site index (counted from 0) whose position tags the statement
LookupSite(st) ==
    CHOOSE i \in 0..(Len(variant_positions) - 1) : variant_positions[i + 1] = st.pos

IsFinalStatement(st) == st.pos = seq_length

\* C18: in both mergers the statements are written in forward site order: a
\* statement that is not the final one is tagged with the position of the site
\* right after its run, the sites looked up by successive statements strictly
\* increase and so do their positions, and a statement tagged with the
\* sequence length has no statement after it.
C18_ForwardSiteOrder ==
    /\ \A k \in 1..Len(TreeStatements) :
          IF IsFinalStatement(TreeStatements[k])
          THEN k = Len(TreeStatements)
          ELSE /\ TreeStatements[k].last + 1 < Len(variant_positions)
               /\ TreeStatements[k].pos = variant_positions[TreeStatements[k].last + 2]
               /\ LookupSite(TreeStatements[k]) = TreeStatements[k].last + 1
    /\ \A k \in 1..(Len(TreeStatements) - 1) :
          /\ TreeStatements[k].last < TreeStatements[k + 1].last
          /\ TreeStatements[k].pos < TreeStatements[k + 1].pos
          /\ ~IsFinalStatement(TreeStatements[k + 1]) =>
                LookupSite(TreeStatements[k]) < LookupSite(TreeStatements[k + 1])

\* three runs written by planar_to_nexus, the last tagged with the sequence length
C18_Witness ==
    /\ fn = "planar_to_nexus" /\ pc = "done"
    /\ Len(TreeStatements) = 3
    /\ ~IsFinalStatement(TreeStatements[2])
    /\ IsFinalStatement(TreeStatements[3])

-----------------------------------------------------------------------------
(* C19 *)

DistinctValues(hs) == {hs[i] : i \in 1..Len(hs)}

\* C19: the while loop of planar_order_to_newick ends for every order and
\* every height sequence (by the return, or by the IndexError of an order too
\* short for its heights); each pass removes every entry equal to the minimum,
\* at least one, from heights; the passes made never exceed the number of
\* distinct height values.
C19_ClusteringTerminates ==
    /\ <>(cpc \in {"done", "IndexError"})
    /\ [][(cpc = "loop" /\ cpc' = "loop") =>
             /\ Len(heights') < Len(heights)
             /\ DistinctValues(heights') = DistinctValues(heights) \ {TargetHeight(heights)}
             /\ npass' = npass + 1]_vars
    /\ [](cpc \in {"loop", "done"} =>
             npass + Cardinality(DistinctValues(heights)) = Cardinality(DistinctValues(InHeights)))
    /\ [](cpc # "start" => npass <= Cardinality(DistinctValues(InHeights)))

\* three heights with two distinct values clustered in two passes
C19_Witness ==
    /\ cpc = "done" /\ WellFormedOrder
    /\ InHeights = <<20, 10, 20>>
    /\ npass = 2 /\ heights = <<>>

-----------------------------------------------------------------------------
(* C20 *)

IsTipChar(c) == \E i \in 1..Len(TipLabels) : TipLabels[i] = c

\* the tokens of a tree text, left to right, without brackets, commas and
\* branch-length suffixes
Leaves(s) ==
    LET tips == SelectSeq(s, IsTipChar)
    IN [i \in 1..Len(tips) |-> <<tips[i]>>]

\* C20: for an input with len(heights) = len(order) - 1 the tokens of the
\* returned tree, read left to right, are the input planar order: every token
\* once, none dropped, duplicated or moved.
C20_LeafOrderPreserved ==
    (cpc = "done" /\ WellFormedOrder) => Leaves(result) = InOrders

\* four tokens clustered in two passes, nested on both sides
C20_Witness ==
    /\ cpc = "done" /\ WellFormedOrder
    /\ InOrders = <<<<"A">>, <<"B">>, <<"C">>, <<"D">>>>
    /\ InHeights = <<10, 20, 10>>
    /\ npass = 2
    /\ Leaves(result) = InOrders

====
